---- MODULE Spec2Model ----
(***************************************************************************)
(* Model of src/advanced-vector/vector.h: RawMemory<T> and Vector<T>.      *)
(*                                                                         *)
(* A block of raw storage is a sequence of slots, one per element the     *)
(* block can hold; a slot is Raw (no object), Moved (an object in its     *)
(* moved-from state) or a value of T.  C++ index i is slot i + 1.          *)
(* Every element operation that may throw is a numbered failure point of   *)
(* the call: an operation takes f, the failure point that throws (0: no    *)
(* throw), and af, whether operator new fails.                             *)
(* vec holds each vector's block and size_, call the call that has just    *)
(* returned; raw, heap and rcall are RawMemory objects on their own;       *)
(* appended is the history of the appends of SpecAppend; data_ and heap    *)
(* are, in SpecHeap, each vector's RawMemory and the blocks handed out.    *)
(***************************************************************************)
EXTENDS Integers, Sequences, FiniteSets, TLC

\* Bounds of the model.
MaxCap == 4
MaxCapPair == 2
MaxBlocks == 3
MaxAppend == 8

\* The slots of a block and the values of T.  The container never inspects
\* a value, so two values are enough to tell any two positions apart.
Raw == -2
Moved == -1
DefaultVal == 0
Values == {DefaultVal, 1}

\* The element types.  nothrow_move: T's move constructor and move assignment
\* are noexcept.  nothrow_move_ctor: the move constructor is noexcept, the move
\* assignment may throw.  throwing_move: both may throw.  copy_only: T has copy
\* operations only, which std::move falls back to.
Kinds == {"nothrow_move", "nothrow_move_ctor", "throwing_move", "copy_only"}

Vecs == {"A", "B"}

VARIABLES vec, kind, call, raw, heap, rcall, appended, data_

vars == <<vec, kind, call, raw, heap, rcall, appended, data_>>

----------------------------------------------------------------------------
\* Element type traits.

\* std::is_nothrow_move_constructible_v<T> || !std::is_copy_constructible_v<T>
RelocByMove == kind \in {"nothrow_move", "nothrow_move_ctor"}

\* What std::move construction or assignment leaves in its source.
AfterMove(x) == IF kind = "copy_only" THEN x ELSE Moved

\* Whether an assignment from std::move(x) may throw.
AssignThrows == kind # "nothrow_move"

----------------------------------------------------------------------------
\* Raw storage and the <memory> algorithms the container calls.

Allocate(n) == [j \in 1..n |-> Raw]

Vec(d, s) == [alive |-> TRUE, data |-> d, size |-> s]

NoVec == [alive |-> FALSE, data |-> << >>, size |-> 0]

Capacity(v) == Len(v.data)

Size(v) == v.size

\* The live elements, in order, of a vector.
Elems(v) == [j \in 1..v.size |-> v.data[j]]

\* How many constructed objects a block holds.
LiveIn(mem) == Cardinality({j \in 1..Len(mem) : mem[j] # Raw})

\* The failure point local to a phase of n points that follows `used` points.
Local(f, used, n) == IF f > used /\ f <= used + n THEN f - used ELSE 0

Construct(mem, i, x) == [mem EXCEPT ![i + 1] = x]

DestroyN(mem, first, n) ==
    [j \in 1..Len(mem) |-> IF first < j /\ j <= first + n THEN Raw ELSE mem[j]]

\* std::uninitialized_copy_n: the k-th copy throws (0: none); the copies made
\* before it are destroyed again.
UninitializedCopyN(src, sfirst, n, dst, dfirst, k) ==
    LET built == IF k = 0 THEN n ELSE k - 1
        filled == [j \in 1..Len(dst) |->
                     IF dfirst < j /\ j <= dfirst + built
                     THEN src[sfirst + (j - dfirst)] ELSE dst[j]]
    IN IF k = 0
       THEN [mem |-> filled, thrown |-> FALSE]
       ELSE [mem |-> DestroyN(filled, dfirst, built), thrown |-> TRUE]

\* The mutant of UninitializedMoveN: the last element of the range is left
\* behind.
UninitializedMoveNOneShort(src, sfirst, n, dst, dfirst) ==
    [src |-> [j \in 1..Len(src) |->
                IF sfirst < j /\ j < sfirst + n THEN AfterMove(src[j]) ELSE src[j]],
     dst |-> [j \in 1..Len(dst) |->
                IF dfirst < j /\ j < dfirst + n
                THEN src[sfirst + (j - dfirst)] ELSE dst[j]]]

\* std::uninitialized_move_n for a T whose move constructor is noexcept.
UninitializedMoveN(src, sfirst, n, dst, dfirst) ==
    [src |-> [j \in 1..Len(src) |->
                IF sfirst < j /\ j <= sfirst + n THEN AfterMove(src[j]) ELSE src[j]],
     dst |-> [j \in 1..Len(dst) |->
                IF dfirst < j /\ j <= dfirst + n
                THEN src[sfirst + (j - dfirst)] ELSE dst[j]]]

\* std::uninitialized_value_construct_n: the k-th construction throws (0: none).
UninitializedValueConstructN(mem, first, n, k) ==
    LET built == IF k = 0 THEN n ELSE k - 1
        filled == [j \in 1..Len(mem) |->
                     IF first < j /\ j <= first + built THEN DefaultVal ELSE mem[j]]
    IN IF k = 0
       THEN [mem |-> filled, thrown |-> FALSE]
       ELSE [mem |-> DestroyN(filled, first, built), thrown |-> TRUE]

\* The mutant of AssignBackward: the range is assigned first element first, so
\* that shifting it right by one repeats its first element.
AssignForwardOverlapping(mem, first, last, dlast, m, mv) ==
    [j \in 1..Len(mem) |->
        IF dlast - (last - first) < j /\ j <= dlast /\ m >= last - first
        THEN mem[first + 1] ELSE mem[j]]

\* std::copy_backward / std::move_backward inside one block: m assignments of
\* the range [first, last) are made, last element first, ending at dlast.
RECURSIVE AssignBackward(_, _, _, _, _, _)
AssignBackward(mem, first, last, dlast, m, mv) ==
    IF m = 0 \/ last = first THEN mem
    ELSE LET w == [mem EXCEPT ![dlast] = mem[last]]
             s == IF mv THEN [w EXCEPT ![last] = AfterMove(mem[last])] ELSE w
         IN AssignBackward(s, first, last - 1, dlast - 1, m - 1, mv)

\* std::move (the algorithm) inside one block: m assignments of [first, last)
\* are made, first element first, starting at dfirst.
RECURSIVE MoveForward(_, _, _, _, _)
MoveForward(mem, first, last, dfirst, m) ==
    IF m = 0 \/ first >= last THEN mem
    ELSE LET w == [mem EXCEPT ![dfirst + 1] = mem[first + 1]]
             s == [w EXCEPT ![first + 1] = AfterMove(mem[first + 1])]
         IN MoveForward(s, first + 1, last, dfirst + 1, m - 1)

\* std::copy from another vector's block: the k-th assignment throws (0: none),
\* the assignments before it stay.
CopyAssignN(src, n, dst, k) ==
    LET done == IF k = 0 THEN n ELSE k - 1
    IN [mem |-> [j \in 1..Len(dst) |-> IF j <= done THEN src[j] ELSE dst[j]],
        thrown |-> k # 0]

----------------------------------------------------------------------------
\* The outcome of one call: the vector afterwards, the exception that left the
\* call, the objects still constructed in a block when it was released, and
\* the index of the returned iterator (-1: none).

Res(v, exc, orphans, ret) == [v |-> v, exc |-> exc, orphans |-> orphans, ret |-> ret]

\* The mutant of Grown: room for one more element only.
GrownByOne(v) == v.size + 1

\* The capacity of the block an append or insert grows into.
Grown(v) == IF v.size = 0 THEN 1 ELSE 2 * v.size

\* Reserve: whether it allocates, its failure points, the call.
ReserveAllocates(v, n) == n > Capacity(v)

ReservePoints(v, n) == IF ReserveAllocates(v, n) /\ ~RelocByMove THEN v.size ELSE 0

\* The mutant of Reserve: each element is destroyed as soon as it is copied.
ReserveDestroysAsItCopies(v, n, af, f) ==
    IF n <= Capacity(v) THEN Res(v, "none", 0, -1)
    ELSE IF af THEN Res(v, "bad_alloc", 0, -1)
    ELSE LET new_data == Allocate(n)
         IN IF RelocByMove
            THEN LET r == UninitializedMoveN(v.data, 0, v.size, new_data, 0)
                 IN Res(Vec(r.dst, v.size), "none",
                        LiveIn(DestroyN(r.src, 0, v.size)), -1)
            ELSE LET r == UninitializedCopyN(v.data, 0, v.size, new_data, 0, f)
                 IN IF r.thrown
                    THEN Res(Vec(DestroyN(v.data, 0, f - 1), v.size), "elem",
                             LiveIn(r.mem), -1)
                    ELSE Res(Vec(r.mem, v.size), "none", 0, -1)

Reserve(v, n, af, f) ==
    IF n <= Capacity(v) THEN Res(v, "none", 0, -1)
    ELSE IF af THEN Res(v, "bad_alloc", 0, -1)
    ELSE LET new_data == Allocate(n)
         IN IF RelocByMove
            THEN LET r == UninitializedMoveN(v.data, 0, v.size, new_data, 0)
                 IN Res(Vec(r.dst, v.size), "none",
                        LiveIn(DestroyN(r.src, 0, v.size)), -1)
            ELSE LET r == UninitializedCopyN(v.data, 0, v.size, new_data, 0, f)
                 IN IF r.thrown
                    THEN Res(v, "elem", LiveIn(r.mem), -1)
                    ELSE Res(Vec(r.mem, v.size), "none",
                             LiveIn(DestroyN(v.data, 0, v.size)), -1)

\* Resize: the points of Reserve, then one per value-constructed element.
ResizeAllocates(v, n) == n >= v.size /\ ReserveAllocates(v, n)

ResizePoints(v, n) == IF n < v.size THEN 0 ELSE ReservePoints(v, n) + (n - v.size)

\* The mutant of Resize: a growing Resize reserves by the growth rule of the
\* appends.
ResizeByGrowthRule(v, n, af, f) ==
    IF n < v.size
    THEN Res(Vec(DestroyN(v.data, n, v.size - n), n), "none", 0, -1)
    ELSE LET rp == ReservePoints(v, n)
             r == Reserve(v, IF n > Capacity(v) /\ 2 * v.size > n THEN 2 * v.size ELSE n,
                          af, Local(f, 0, rp))
         IN IF r.exc # "none" THEN r
            ELSE LET c == UninitializedValueConstructN(r.v.data, v.size, n - v.size,
                                                       Local(f, rp, n - v.size))
                 IN IF c.thrown
                    THEN Res(Vec(c.mem, v.size), "elem", r.orphans, -1)
                    ELSE Res(Vec(c.mem, n), "none", r.orphans, -1)

Resize(v, n, af, f) ==
    IF n < v.size
    THEN Res(Vec(DestroyN(v.data, n, v.size - n), n), "none", 0, -1)
    ELSE LET rp == ReservePoints(v, n)
             r == Reserve(v, n, af, Local(f, 0, rp))
         IN IF r.exc # "none" THEN r
            ELSE LET c == UninitializedValueConstructN(r.v.data, v.size, n - v.size,
                                                       Local(f, rp, n - v.size))
                 IN IF c.thrown
                    THEN Res(Vec(c.mem, v.size), "elem", r.orphans, -1)
                    ELSE Res(Vec(c.mem, n), "none", r.orphans, -1)

\* PopBack, called on a non-empty vector.
PopBack(v) == Vec(DestroyN(v.data, v.size - 1, 1), v.size - 1)

\* Appends: whether the call allocates and its failure points (1: the new
\* element's construction; 2..: the copies of the existing elements).
AppendAllocates(v) == v.size = Capacity(v)

AppendPoints(v) == IF AppendAllocates(v) /\ ~RelocByMove THEN 1 + v.size ELSE 1

PushBackImpl(v, val, af, f) ==
    IF v.size = Capacity(v)
    THEN IF af THEN Res(v, "bad_alloc", 0, -1)
         ELSE IF f = 1 THEN Res(v, "elem", 0, -1)
         ELSE LET new_data == Construct(Allocate(Grown(v)), v.size, val)
              IN IF RelocByMove
                 THEN LET r == UninitializedMoveN(v.data, 0, v.size, new_data, 0)
                      IN Res(Vec(r.dst, v.size + 1), "none",
                             LiveIn(DestroyN(r.src, 0, v.size)), v.size)
                 ELSE LET r == UninitializedCopyN(v.data, 0, v.size, new_data, 0,
                                                  Local(f, 1, v.size))
                      IN IF r.thrown
                         THEN Res(v, "elem", LiveIn(DestroyN(r.mem, v.size, 1)), -1)
                         ELSE Res(Vec(r.mem, v.size + 1), "none",
                                  LiveIn(DestroyN(v.data, 0, v.size)), v.size)
    ELSE IF f = 1 THEN Res(v, "elem", 0, -1)
         ELSE Res(Vec(Construct(v.data, v.size, val), v.size + 1), "none", 0, v.size)

EmplaceBack(v, val, af, f) ==
    IF v.size < Capacity(v)
    THEN IF f = 1 THEN Res(v, "elem", 0, -1)
         ELSE Res(Vec(Construct(v.data, v.size, val), v.size + 1), "none", 0, v.size)
    ELSE IF af THEN Res(v, "bad_alloc", 0, -1)
         ELSE IF f = 1 THEN Res(v, "elem", 0, -1)
         ELSE LET new_data == Construct(Allocate(Grown(v)), v.size, val)
              IN IF RelocByMove
                 THEN LET r == UninitializedMoveN(v.data, 0, v.size, new_data, 0)
                      IN Res(Vec(r.dst, v.size + 1), "none",
                             LiveIn(DestroyN(r.src, 0, v.size)), v.size)
                 ELSE LET r == UninitializedCopyN(v.data, 0, v.size, new_data, 0,
                                                  Local(f, 1, v.size))
                      IN IF r.thrown
                         THEN Res(v, "elem", LiveIn(r.mem), -1)
                         ELSE Res(Vec(r.mem, v.size + 1), "none",
                                  LiveIn(DestroyN(v.data, 0, v.size)), v.size)

\* Emplace (and Insert, which forwards to it) at index p <= size.  Failure
\* points of the path without reallocation, p < size: 1 the temporary; for a T
\* relocated by move whose assignment may throw, 2.. the assignments of
\* std::move_backward, then the assignment of the temporary; for a T relocated
\* by copy, 2 the construction of the tail slot from the last element, 3.. the
\* assignments of std::copy_backward, then the assignment of the temporary.
\* Of the path with reallocation: 1 the new element, 2.. the copies of the
\* prefix, then those of the suffix.
EmplaceAllocates(v) == v.size = Capacity(v)

EmplacePoints(v, p) ==
    IF v.size < Capacity(v)
    THEN IF p = v.size THEN 1
         ELSE IF RelocByMove
              THEN IF AssignThrows THEN 2 + (v.size - 1 - p) ELSE 1
              ELSE 3 + (v.size - 1 - p)
    ELSE IF RelocByMove THEN 1 ELSE 1 + v.size

\* Whether failure point f of Emplace(v, p, ...) lies in the try block of the
\* path without reallocation.
InTry(v, p, f) == v.size < Capacity(v) /\ p < v.size /\ ~RelocByMove /\ f >= 3

\* The path without reallocation, p < size, for a T relocated by move: no
\* handler guards std::move_backward and the assignment of the temporary.
EmplaceShiftMove(v, p, val, f) ==
    IF f = 1 THEN Res(v, "elem", 0, -1)
    ELSE LET cnt == v.size - 1 - p
             m1 == Construct(v.data, v.size, v.data[v.size])
             m2 == [m1 EXCEPT ![v.size] = AfterMove(v.data[v.size])]
             k == Local(f, 1, cnt)
             m3 == AssignBackward(m2, p, v.size - 1, v.size,
                                  IF k = 0 THEN cnt ELSE k - 1, TRUE)
         IN IF k # 0 \/ f = 2 + cnt
            THEN Res(Vec(m3, v.size), "elem", 0, -1)
            ELSE Res(Vec([m3 EXCEPT ![p + 1] = val], v.size + 1), "none", 0, p)

\* The path without reallocation, p < size, for a T relocated by copy.  The
\* handler's call std::destroy(end(), 1) passes an iterator and an int to the
\* two-iterator algorithm: h is whether the tail slot ends up destroyed.
EmplaceShiftCopy(v, p, val, f, h) ==
    IF f = 1 \/ f = 2 THEN Res(v, "elem", 0, -1)
    ELSE LET cnt == v.size - 1 - p
             m1 == Construct(v.data, v.size, v.data[v.size])
             m2 == [m1 EXCEPT ![v.size] = AfterMove(v.data[v.size])]
             k == Local(f, 2, cnt)
             m3 == AssignBackward(m2, p, v.size - 1, v.size,
                                  IF k = 0 THEN cnt ELSE k - 1, FALSE)
             caught == IF h THEN DestroyN(m3, v.size, 1) ELSE m3
         IN IF k # 0 \/ f = 3 + cnt
            THEN Res(Vec(caught, v.size), "elem", 0, -1)
            ELSE Res(Vec([m3 EXCEPT ![p + 1] = val], v.size + 1), "none", 0, p)

\* The path with reallocation.
EmplaceRealloc(v, p, val, af, f) ==
    IF af THEN Res(v, "bad_alloc", 0, -1)
    ELSE IF f = 1 THEN Res(v, "elem", 0, -1)
    ELSE LET new_data == Construct(Allocate(Grown(v)), p, val)
         IN IF RelocByMove
            THEN LET r1 == UninitializedMoveN(v.data, 0, p, new_data, 0)
                     r2 == UninitializedMoveN(r1.src, p, v.size - p, r1.dst, p + 1)
                 IN Res(Vec(r2.dst, v.size + 1), "none",
                        LiveIn(DestroyN(r2.src, 0, v.size)), p)
            ELSE LET r1 == UninitializedCopyN(v.data, 0, p, new_data, 0, Local(f, 1, p))
                     r2 == UninitializedCopyN(v.data, p, v.size - p, r1.mem, p + 1,
                                              Local(f, 1 + p, v.size - p))
                 IN IF r1.thrown THEN Res(v, "elem", LiveIn(r1.mem), -1)
                    ELSE IF r2.thrown THEN Res(v, "elem", LiveIn(r2.mem), -1)
                    ELSE Res(Vec(r2.mem, v.size + 1), "none",
                             LiveIn(DestroyN(v.data, 0, v.size)), p)

Emplace(v, p, val, af, f, h) ==
    IF v.size < Capacity(v)
    THEN IF p = v.size
         THEN IF f = 1 THEN Res(v, "elem", 0, -1)
              ELSE Res(Vec(Construct(v.data, v.size, val), v.size + 1), "none", 0, p)
         ELSE IF RelocByMove THEN EmplaceShiftMove(v, p, val, f)
              ELSE EmplaceShiftCopy(v, p, val, f, h)
    ELSE EmplaceRealloc(v, p, val, af, f)

Insert(v, p, val, af, f, h) == Emplace(v, p, val, af, f, h)

\* The calls whose argument is a reference to element i of the vector itself.
\* Each reads it where the source builds an object from the argument: T(val)
\* in the block or in new_data before the elements are relocated (PushBackImpl,
\* EmplaceBack, Emplace at end() or with reallocation), T copy(args) before
\* the shift (Emplace in place): v.data is then still as before the call.
PushBackRef(v, i, af, f) == PushBackImpl(v, v.data[i + 1], af, f)

EmplaceBackRef(v, i, af, f) == EmplaceBack(v, v.data[i + 1], af, f)

\* The mutant of EmplaceRef: in place, the argument is read after the shift,
\* when slot i holds its left neighbour or a moved-from object.
EmplaceRefReadsLate(v, p, i, af, f, h) ==
    LET late == IF v.size < Capacity(v) /\ p < v.size /\ i >= p
                THEN IF i > p THEN v.data[i]
                     ELSE IF RelocByMove THEN AfterMove(v.data[i + 1]) ELSE v.data[i + 1]
                ELSE v.data[i + 1]
    IN Emplace(v, p, late, af, f, h)

EmplaceRef(v, p, i, af, f, h) == Emplace(v, p, v.data[i + 1], af, f, h)

InsertRef(v, p, i, af, f, h) == EmplaceRef(v, p, i, af, f, h)

\* Erase at index p < size: one failure point per assignment of std::move
\* when T's move assignment may throw.
ErasePoints(v, p) == IF AssignThrows THEN v.size - 1 - p ELSE 0

\* The mutant of Erase: the elements after p are not shifted.
EraseNoShift(v, p, f) ==
    IF f # 0 THEN Res(v, "elem", 0, -1)
    ELSE Res(PopBack(v), "none", 0, p)

Erase(v, p, f) ==
    LET cnt == v.size - 1 - p
        m == MoveForward(v.data, p + 1, v.size, p, IF f = 0 THEN cnt ELSE f - 1)
    IN IF f # 0 THEN Res(Vec(m, v.size), "elem", 0, -1)
       ELSE Res(PopBack(Vec(m, v.size)), "none", 0, p)

\* Erase(end()) in a build with assertions.  assert(pos >= begin() && pos <=
\* end()) lets the position through.  std::move is then called on the range
\* [data_ + size_ + 1, end()), whose first iterator lies past its last:
\* undefined behaviour, u is whether it breaks the run or moves nothing.
\* PopBack then forms data_ + (size_ - 1): on an empty vector size_ - 1 wraps
\* to the largest size_t and trips the assertion of RawMemory::operator+;
\* otherwise it destroys the last element.
EraseAtEnd(v, u) ==
    IF u THEN Res(v, "ub", 0, -1)
    ELSE IF v.size = 0 THEN Res(v, "assert", 0, -1)
    ELSE Res(PopBack(v), "none", 0, v.size)

----------------------------------------------------------------------------
\* Construction, assignment, Swap and destruction.  A call on two vectors
\* gives both afterwards: v the object the call is made on, o the other.

Res2(v, o, exc, orphans) ==
    [v |-> v, o |-> o, exc |-> exc, orphans |-> orphans, ret |-> -1]

SwapVec(a, b) == [a |-> Vec(b.data, b.size), b |-> Vec(a.data, a.size)]

\* Vector() = default
DefaultCtor == Vec(<< >>, 0)

\* Vector(size_t size): one failure point per value-constructed element.
SizedCtor(n, af, f) ==
    IF n > 0 /\ af THEN Res(NoVec, "bad_alloc", 0, -1)
    ELSE LET c == UninitializedValueConstructN(Allocate(n), 0, n, f)
         IN IF c.thrown THEN Res(NoVec, "elem", LiveIn(c.mem), -1)
            ELSE Res(Vec(c.mem, n), "none", 0, -1)

\* The mutant of CopyCtor: the copy takes the capacity of other, not its size.
CopyCtorKeepsCapacity(other, af, f) ==
    IF other.size > 0 /\ af THEN Res(NoVec, "bad_alloc", 0, -1)
    ELSE LET c == UninitializedCopyN(other.data, 0, other.size,
                                     Allocate(Capacity(other)), 0, f)
         IN IF c.thrown THEN Res(NoVec, "elem", LiveIn(c.mem), -1)
            ELSE Res(Vec(c.mem, other.size), "none", 0, -1)

\* Vector(const Vector& other): one failure point per copied element.
CopyCtor(other, af, f) ==
    IF other.size > 0 /\ af THEN Res(NoVec, "bad_alloc", 0, -1)
    ELSE LET c == UninitializedCopyN(other.data, 0, other.size,
                                     Allocate(other.size), 0, f)
         IN IF c.thrown THEN Res(NoVec, "elem", LiveIn(c.mem), -1)
            ELSE Res(Vec(c.mem, other.size), "none", 0, -1)

\* Vector(Vector&& other)
MoveCtor(other) ==
    LET s == SwapVec(DefaultCtor, other)
    IN Res2(s.a, [s.b EXCEPT !.size = 0], "none", 0)

\* The mutant of Dtor: the block is released without std::destroy_n.
DtorKeepsElements(v) == Res(NoVec, "none", LiveIn(v.data), -1)

\* ~Vector(), then ~RawMemory() of data_.
Dtor(v) == Res(NoVec, "none", LiveIn(DestroyN(v.data, 0, v.size)), -1)

\* operator=(const Vector& rhs); same: this == &rhs.
CopyAssignAllocates(v, rhs, same) == ~same /\ Capacity(v) < rhs.size

CopyAssignPoints(v, rhs, same) == IF same THEN 0 ELSE rhs.size

\* The mutant of CopyAssign: without enough capacity, the elements are
\* destroyed before the new block is allocated.
CopyAssignClearsFirst(v, rhs, same, af, f) ==
    IF same THEN Res(v, "none", 0, -1)
    ELSE LET cleared == Vec(DestroyN(v.data, 0, v.size), 0)
             rhs_copy == CopyCtor(rhs, af, f)
         IN IF rhs_copy.exc # "none" THEN Res(cleared, rhs_copy.exc, rhs_copy.orphans, -1)
            ELSE Res(rhs_copy.v, "none", 0, -1)

\* The mutant of CopyAssign: with enough capacity, size_ is written before the
\* elements are assigned and constructed.
CopyAssignSizeFirst(v, rhs, same, af, f) ==
    IF same THEN Res(v, "none", 0, -1)
    ELSE IF Capacity(v) < rhs.size
    THEN LET rhs_copy == CopyCtor(rhs, af, f)
         IN IF rhs_copy.exc # "none" THEN Res(v, rhs_copy.exc, rhs_copy.orphans, -1)
            ELSE LET s == SwapVec(v, rhs_copy.v)
                 IN Res(s.a, "none", Dtor(s.b).orphans, -1)
    ELSE IF rhs.size < v.size
    THEN LET r == CopyAssignN(rhs.data, rhs.size, v.data, f)
         IN IF r.thrown THEN Res(Vec(r.mem, rhs.size), "elem", 0, -1)
            ELSE Res(Vec(DestroyN(r.mem, rhs.size, v.size - rhs.size), rhs.size),
                     "none", 0, -1)
    ELSE LET r1 == CopyAssignN(rhs.data, v.size, v.data, Local(f, 0, v.size))
             r2 == UninitializedCopyN(rhs.data, v.size, rhs.size - v.size, r1.mem,
                                      v.size, Local(f, v.size, rhs.size - v.size))
         IN IF r1.thrown THEN Res(Vec(r1.mem, rhs.size), "elem", 0, -1)
            ELSE IF r2.thrown THEN Res(Vec(r2.mem, rhs.size), "elem", 0, -1)
            ELSE Res(Vec(r2.mem, rhs.size), "none", 0, -1)

CopyAssign(v, rhs, same, af, f) ==
    IF same THEN Res(v, "none", 0, -1)
    ELSE IF Capacity(v) < rhs.size
    THEN LET rhs_copy == CopyCtor(rhs, af, f)
         IN IF rhs_copy.exc # "none" THEN Res(v, rhs_copy.exc, rhs_copy.orphans, -1)
            ELSE LET s == SwapVec(v, rhs_copy.v)
                 IN Res(s.a, "none", Dtor(s.b).orphans, -1)
    ELSE IF rhs.size < v.size
    THEN LET r == CopyAssignN(rhs.data, rhs.size, v.data, f)
         IN IF r.thrown THEN Res(Vec(r.mem, v.size), "elem", 0, -1)
            ELSE Res(Vec(DestroyN(r.mem, rhs.size, v.size - rhs.size), rhs.size),
                     "none", 0, -1)
    ELSE LET r1 == CopyAssignN(rhs.data, v.size, v.data, Local(f, 0, v.size))
             r2 == UninitializedCopyN(rhs.data, v.size, rhs.size - v.size, r1.mem,
                                      v.size, Local(f, v.size, rhs.size - v.size))
         IN IF r1.thrown THEN Res(Vec(r1.mem, v.size), "elem", 0, -1)
            ELSE IF r2.thrown THEN Res(Vec(r2.mem, v.size), "elem", 0, -1)
            ELSE Res(Vec(r2.mem, rhs.size), "none", 0, -1)

\* The mutant of MoveAssign: the source is emptied as the move constructor does.
MoveAssignEmptying(v, rhs, same) ==
    IF same THEN Res2(v, v, "none", 0)
    ELSE LET s == SwapVec(v, rhs)
         IN Res2(s.a, [s.b EXCEPT !.size = 0], "none", 0)

\* operator=(Vector&& rhs)
MoveAssign(v, rhs, same) ==
    IF same THEN Res2(v, v, "none", 0)
    ELSE LET s == SwapVec(v, rhs) IN Res2(s.a, s.b, "none", 0)

\* Vector::Swap
Swap(v, other) == LET s == SwapVec(v, other) IN Res2(s.a, s.b, "none", 0)

----------------------------------------------------------------------------
\* RawMemory objects on their own.  A handle is 0 (nullptr) or the number of a
\* block of the heap; a block is "unused", "owned" (allocated, not released),
\* "freed" or "double_freed".

Raws == {"r1", "r2"}

Blocks == 1..MaxBlocks

NoRaw == [alive |-> FALSE, buffer |-> 0, capacity |-> 0]

RawObj(b, c) == [alive |-> TRUE, buffer |-> b, capacity |-> c]

\* operator new: the first block not yet handed out.
NewBlock(h) == CHOOSE b \in Blocks : h[b] = "unused" /\ \A c \in Blocks : h[c] = "unused" => b <= c

\* RawMemory::Deallocate
Deallocate(h, buf) ==
    IF buf = 0 THEN h
    ELSE [h EXCEPT ![buf] = IF @ = "owned" THEN "freed" ELSE "double_freed"]

\* RawMemory(size_t capacity) with RawMemory::Allocate
RawMemoryCtor(h, n) ==
    IF n # 0
    THEN [obj |-> RawObj(NewBlock(h), n), heap |-> [h EXCEPT ![NewBlock(h)] = "owned"]]
    ELSE [obj |-> RawObj(0, n), heap |-> h]

\* RawMemory(RawMemory&& other)
RawMemoryMoveCtor(h, other) ==
    LET mine == RawObj(other.buffer, other.capacity)
        theirs == RawObj(0, 0)
    IN [obj |-> mine, other |-> theirs, heap |-> Deallocate(h, theirs.buffer)]

\* operator=(RawMemory&& rhs): std::move of a pointer or a size_t copies it.
RawMemoryMoveAssign(h, me, rhs) ==
    [obj |-> RawObj(rhs.buffer, rhs.capacity), other |-> rhs, heap |-> h]

\* RawMemory::Swap
RawMemorySwap(h, me, other) ==
    [obj |-> RawObj(other.buffer, other.capacity),
     other |-> RawObj(me.buffer, me.capacity), heap |-> h]

\* ~RawMemory()
RawMemoryDtor(h, me) == [obj |-> NoRaw, heap |-> Deallocate(h, me.buffer)]

\* What a Vector member function does with data_, its RawMemory.
\* RawMemory<T> new_data(n); ...; data_.Swap(new_data); then ~RawMemory() of
\* new_data at the end of the scope.  Vector::operator=(const Vector&) does
\* the same through rhs_copy and Vector::Swap.
SwapInNewData(h, me, n) ==
    LET new_data == RawMemoryCtor(h, n)
        s == RawMemorySwap(new_data.heap, me, new_data.obj)
    IN [obj |-> s.obj, heap |-> RawMemoryDtor(s.heap, s.other).heap]

\* A member function that leaves data_ alone.
KeepData(h, me) == [obj |-> me, heap |-> h]

\* operator delete gives a released block back to operator new.
Recycle(h) == [b \in Blocks |-> IF h[b] = "freed" THEN "unused" ELSE h[b]]

----------------------------------------------------------------------------
\* The calls.  `call` records the call that has just returned: its name, the
\* vector it was made on (t) and the other vector (o), both before the call,
\* the arguments, and the outcome; the caller then goes on (Return) to its next
\* call.  undo holds, for an Erase of the iterator an Emplace or Insert has
\* just returned, the elements before that insertion.

Args(p, val, n, f, af, h) ==
    [p |-> p, val |-> val, n |-> n, f |-> f, af |-> af, h |-> h]

CallRec(op, t, o, a, r, undo) ==
    [op |-> op, t |-> t, o |-> o, pre |-> vec[t], preO |-> vec[o], arg |-> a,
     exc |-> r.exc, orphans |-> r.orphans, ret |-> r.ret, undo |-> undo]

NoCall ==
    [op |-> "none", t |-> "A", o |-> "A", pre |-> NoVec, preO |-> NoVec,
     arg |-> Args(-1, 0, -1, 0, FALSE, FALSE), exc |-> "none", orphans |-> 0,
     ret |-> -1, undo |-> << >>]

\* The caller is between two calls.
Idle == call = NoCall

Do(op, t, a, r, undo) ==
    /\ vec' = [vec EXCEPT ![t] = r.v]
    /\ call' = CallRec(op, t, t, a, r, undo)
    /\ UNCHANGED <<kind, raw, heap, rcall, appended, data_>>

Do2(op, t, o, a, r) ==
    /\ vec' = [vec EXCEPT ![o] = r.o, ![t] = r.v]
    /\ call' = CallRec(op, t, o, a, r, << >>)
    /\ UNCHANGED <<kind, raw, heap, rcall, appended, data_>>

ReserveCall(t, bnd) ==
    /\ Idle
    /\ \E n \in 0..bnd, af \in BOOLEAN, f \in 0..bnd :
           /\ vec[t].alive
           /\ af => (ReserveAllocates(vec[t], n) /\ f = 0)
           /\ f <= ReservePoints(vec[t], n)
           /\ Do("Reserve", t, Args(-1, 0, n, f, af, FALSE), Reserve(vec[t], n, af, f), << >>)

ResizeCall(t, bnd) ==
    /\ Idle
    /\ \E n \in 0..bnd, af \in BOOLEAN, f \in 0..bnd :
           /\ vec[t].alive
           /\ af => (ResizeAllocates(vec[t], n) /\ f = 0)
           /\ f <= ResizePoints(vec[t], n)
           /\ Do("Resize", t, Args(-1, 0, n, f, af, FALSE), Resize(vec[t], n, af, f), << >>)

PushBackCall(t, bnd) ==
    /\ Idle
    /\ \E val \in Values, af \in BOOLEAN, f \in 0..(bnd + 1) :
           /\ vec[t].alive
           /\ AppendAllocates(vec[t]) => Grown(vec[t]) <= bnd
           /\ af => (AppendAllocates(vec[t]) /\ f = 0)
           /\ f <= AppendPoints(vec[t])
           /\ Do("PushBack", t, Args(-1, val, -1, f, af, FALSE),
                 PushBackImpl(vec[t], val, af, f), << >>)

EmplaceBackCall(t, bnd) ==
    /\ Idle
    /\ \E val \in Values, af \in BOOLEAN, f \in 0..(bnd + 1) :
           /\ vec[t].alive
           /\ AppendAllocates(vec[t]) => Grown(vec[t]) <= bnd
           /\ af => (AppendAllocates(vec[t]) /\ f = 0)
           /\ f <= AppendPoints(vec[t])
           /\ Do("EmplaceBack", t, Args(-1, val, -1, f, af, FALSE),
                 EmplaceBack(vec[t], val, af, f), << >>)

PopBackCall(t) ==
    /\ Idle
    /\ vec[t].alive
    /\ vec[t].size > 0
    /\ Do("PopBack", t, Args(-1, 0, -1, 0, FALSE, FALSE),
          Res(PopBack(vec[t]), "none", 0, -1), << >>)

EmplaceCall(t, bnd) ==
    /\ Idle
    /\ \E p \in 0..bnd, val \in Values, af \in BOOLEAN, f \in 0..(bnd + 2), h \in BOOLEAN :
           /\ vec[t].alive
           /\ p <= vec[t].size
           /\ EmplaceAllocates(vec[t]) => Grown(vec[t]) <= bnd
           /\ af => (EmplaceAllocates(vec[t]) /\ f = 0)
           /\ f <= EmplacePoints(vec[t], p)
           /\ h => InTry(vec[t], p, f)
           /\ Do("Emplace", t, Args(p, val, -1, f, af, h),
                 Emplace(vec[t], p, val, af, f, h), << >>)

InsertCall(t, bnd) ==
    /\ Idle
    /\ \E p \in 0..bnd, val \in Values, af \in BOOLEAN, f \in 0..(bnd + 2), h \in BOOLEAN :
           /\ vec[t].alive
           /\ p <= vec[t].size
           /\ EmplaceAllocates(vec[t]) => Grown(vec[t]) <= bnd
           /\ af => (EmplaceAllocates(vec[t]) /\ f = 0)
           /\ f <= EmplacePoints(vec[t], p)
           /\ h => InTry(vec[t], p, f)
           /\ Do("Insert", t, Args(p, val, -1, f, af, h),
                 Insert(vec[t], p, val, af, f, h), << >>)

EraseCall(t, bnd) ==
    /\ Idle
    /\ \E p \in 0..bnd, f \in 0..bnd :
           /\ vec[t].alive
           /\ p < vec[t].size
           /\ f <= ErasePoints(vec[t], p)
           /\ Do("Erase", t, Args(p, 0, -1, f, FALSE, FALSE), Erase(vec[t], p, f), << >>)

\* v.Erase(v.end())
EraseEndCall(t) ==
    /\ Idle
    /\ vec[t].alive
    /\ \E u \in BOOLEAN :
           Do("Erase", t, Args(vec[t].size, 0, -1, 0, FALSE, u), EraseAtEnd(vec[t], u), << >>)

\* v.Erase(v.Insert(pos, x)): Erase of the iterator the insertion returned.
EraseInsertedCall(t) ==
    \E f \in 0..MaxCap :
        /\ call.op \in {"Emplace", "Insert"}
        /\ call.exc = "none"
        /\ call.t = t
        /\ f <= ErasePoints(vec[t], call.ret)
        /\ LET r == Erase(vec[t], call.ret, f)
           IN /\ vec' = [vec EXCEPT ![t] = r.v]
              /\ call' = CallRec("Erase", t, t, Args(call.ret, 0, -1, f, FALSE, FALSE), r,
                                 << Elems(call.pre) >>)
              /\ UNCHANGED <<kind, raw, heap, rcall, appended, data_>>

\* The outcomes that end the program: a failed assertion, undefined behaviour.
Aborts == {"assert", "ub"}

\* The caller is done with the outcome of the last call.
Return ==
    /\ call # NoCall
    /\ call.exc \notin Aborts
    /\ call' = NoCall
    /\ UNCHANGED <<vec, kind, raw, heap, rcall, appended, data_>>

DefaultCtorCall(t) ==
    /\ Idle
    /\ ~vec[t].alive
    /\ Do("Vector()", t, Args(-1, 0, -1, 0, FALSE, FALSE),
          Res(DefaultCtor, "none", 0, -1), << >>)

SizedCtorCall(t, bnd) ==
    /\ Idle
    /\ \E n \in 0..bnd, af \in BOOLEAN, f \in 0..bnd :
           /\ ~vec[t].alive
           /\ af => (n > 0 /\ f = 0)
           /\ f <= n
           /\ Do("Vector(size)", t, Args(-1, 0, n, f, af, FALSE), SizedCtor(n, af, f), << >>)

CopyCtorCall(t, o, bnd) ==
    /\ Idle
    /\ \E af \in BOOLEAN, f \in 0..bnd :
           /\ ~vec[t].alive
           /\ vec[o].alive
           /\ af => (vec[o].size > 0 /\ f = 0)
           /\ f <= vec[o].size
           /\ LET r == CopyCtor(vec[o], af, f)
              IN Do2("Vector(const Vector&)", t, o, Args(-1, 0, -1, f, af, FALSE),
                     Res2(r.v, vec[o], r.exc, r.orphans))

MoveCtorCall(t, o) ==
    /\ Idle
    /\ ~vec[t].alive
    /\ vec[o].alive
    /\ Do2("Vector(Vector&&)", t, o, Args(-1, 0, -1, 0, FALSE, FALSE), MoveCtor(vec[o]))

DtorCall(t) ==
    /\ Idle
    /\ vec[t].alive
    /\ Do("~Vector()", t, Args(-1, 0, -1, 0, FALSE, FALSE), Dtor(vec[t]), << >>)

CopyAssignCall(t, o, bnd) ==
    /\ Idle
    /\ \E af \in BOOLEAN, f \in 0..bnd :
           /\ vec[t].alive
           /\ vec[o].alive
           /\ af => (CopyAssignAllocates(vec[t], vec[o], t = o) /\ f = 0)
           /\ f <= CopyAssignPoints(vec[t], vec[o], t = o)
           /\ LET r == CopyAssign(vec[t], vec[o], t = o, af, f)
              IN Do2("operator=(const Vector&)", t, o, Args(-1, 0, -1, f, af, FALSE),
                     Res2(r.v, IF t = o THEN r.v ELSE vec[o], r.exc, r.orphans))

\* operator=(const Vector& rhs) with rhs a vector that is not part of the
\* state: its elements are an input of the call.
AssignCall(t, bnd) ==
    /\ Idle
    /\ \E n \in 0..bnd, af \in BOOLEAN, f \in 0..bnd :
           \E src \in [1..n -> Values] :
               /\ vec[t].alive
               /\ af => (CopyAssignAllocates(vec[t], Vec(src, n), FALSE) /\ f = 0)
               /\ f <= CopyAssignPoints(vec[t], Vec(src, n), FALSE)
               /\ LET r == CopyAssign(vec[t], Vec(src, n), FALSE, af, f)
                  IN /\ vec' = [vec EXCEPT ![t] = r.v]
                     /\ call' = [CallRec("operator=(const Vector&)", t, t,
                                         Args(-1, 0, -1, f, af, FALSE), r, << >>)
                                 EXCEPT !.o = "rhs", !.preO = Vec(src, n)]
                     /\ UNCHANGED <<kind, raw, heap, rcall, appended, data_>>

MoveAssignCall(t, o) ==
    /\ Idle
    /\ vec[t].alive
    /\ vec[o].alive
    /\ Do2("operator=(Vector&&)", t, o, Args(-1, 0, -1, 0, FALSE, FALSE),
           MoveAssign(vec[t], vec[o], t = o))

SwapCall(t, o) ==
    /\ Idle
    /\ vec[t].alive
    /\ vec[o].alive
    /\ Do2("Swap", t, o, Args(-1, 0, -1, 0, FALSE, FALSE), Swap(vec[t], vec[o]))

\* Appends to vector A from its construction on; appended is the sequence of
\* the values whose append returned.
AppendCall(op, r, val, f, af) ==
    /\ vec' = [vec EXCEPT !["A"] = r.v]
    /\ call' = CallRec(op, "A", "A", Args(-1, val, -1, f, af, FALSE), r, << >>)
    /\ appended' = IF r.exc = "none" THEN Append(appended, val) ELSE appended
    /\ UNCHANGED <<kind, raw, heap, rcall, data_>>

AppendPushBackCall(bnd) ==
    /\ Idle
    /\ \E val \in Values, af \in BOOLEAN, f \in 0..(bnd + 1) :
           /\ AppendAllocates(vec["A"]) => Grown(vec["A"]) <= bnd
           /\ af => (AppendAllocates(vec["A"]) /\ f = 0)
           /\ f <= AppendPoints(vec["A"])
           /\ AppendCall("PushBack", PushBackImpl(vec["A"], val, af, f), val, f, af)

AppendEmplaceBackCall(bnd) ==
    /\ Idle
    /\ \E val \in Values, af \in BOOLEAN, f \in 0..(bnd + 1) :
           /\ AppendAllocates(vec["A"]) => Grown(vec["A"]) <= bnd
           /\ af => (AppendAllocates(vec["A"]) /\ f = 0)
           /\ f <= AppendPoints(vec["A"])
           /\ AppendCall("EmplaceBack", EmplaceBack(vec["A"], val, af, f), val, f, af)

\* Calls that return, on two vectors with their blocks: data_[t] is the
\* RawMemory of vector t and heap the blocks of operator new.  call.preO is the
\* other vector before the call, also for a call on one vector.
Other(t) == CHOOSE o \in Vecs : o # t

CanAllocate == \E b \in Blocks : heap[b] = "unused"

NoArgs == Args(-1, 0, -1, 0, FALSE, FALSE)

HeapDo(op, t, a, r, d) ==
    /\ vec' = [vec EXCEPT ![t] = r.v]
    /\ data_' = [data_ EXCEPT ![t] = d.obj]
    /\ heap' = Recycle(d.heap)
    /\ call' = CallRec(op, t, Other(t), a, r, << >>)
    /\ UNCHANGED <<kind, raw, rcall, appended>>

HeapDo2(op, t, o, r, d) ==
    /\ vec' = [vec EXCEPT ![o] = r.o, ![t] = r.v]
    /\ data_' = [data_ EXCEPT ![o] = d.other, ![t] = d.obj]
    /\ heap' = Recycle(d.heap)
    /\ call' = CallRec(op, t, o, NoArgs, r, << >>)
    /\ UNCHANGED <<kind, raw, rcall, appended>>

\* The block of a call that grows the vector into a block of n elements when
\* `grows`, and keeps its block otherwise.
DataAfter(t, grows, n) ==
    IF grows THEN SwapInNewData(heap, data_[t], n) ELSE KeepData(heap, data_[t])

HeapReserveCall(t, bnd) ==
    /\ Idle
    /\ vec[t].alive
    /\ \E n \in 0..bnd :
           /\ ReserveAllocates(vec[t], n) => CanAllocate
           /\ HeapDo("Reserve", t, Args(-1, 0, n, 0, FALSE, FALSE),
                     Reserve(vec[t], n, FALSE, 0),
                     DataAfter(t, ReserveAllocates(vec[t], n), n))

HeapResizeCall(t, bnd) ==
    /\ Idle
    /\ vec[t].alive
    /\ \E n \in 0..bnd :
           /\ ResizeAllocates(vec[t], n) => CanAllocate
           /\ HeapDo("Resize", t, Args(-1, 0, n, 0, FALSE, FALSE),
                     Resize(vec[t], n, FALSE, 0),
                     DataAfter(t, ResizeAllocates(vec[t], n), n))

HeapPushBackCall(t, bnd) ==
    /\ Idle
    /\ vec[t].alive
    /\ AppendAllocates(vec[t]) => (Grown(vec[t]) <= bnd /\ CanAllocate)
    /\ \E val \in Values :
           HeapDo("PushBack", t, Args(-1, val, -1, 0, FALSE, FALSE),
                  PushBackImpl(vec[t], val, FALSE, 0),
                  DataAfter(t, AppendAllocates(vec[t]), Grown(vec[t])))

HeapEmplaceBackCall(t, bnd) ==
    /\ Idle
    /\ vec[t].alive
    /\ AppendAllocates(vec[t]) => (Grown(vec[t]) <= bnd /\ CanAllocate)
    /\ \E val \in Values :
           HeapDo("EmplaceBack", t, Args(-1, val, -1, 0, FALSE, FALSE),
                  EmplaceBack(vec[t], val, FALSE, 0),
                  DataAfter(t, AppendAllocates(vec[t]), Grown(vec[t])))

HeapPopBackCall(t) ==
    /\ Idle
    /\ vec[t].alive
    /\ vec[t].size > 0
    /\ HeapDo("PopBack", t, NoArgs, Res(PopBack(vec[t]), "none", 0, -1),
              KeepData(heap, data_[t]))

HeapEmplaceCall(t, bnd) ==
    /\ Idle
    /\ vec[t].alive
    /\ EmplaceAllocates(vec[t]) => (Grown(vec[t]) <= bnd /\ CanAllocate)
    /\ \E p \in 0..bnd, val \in Values :
           /\ p <= vec[t].size
           /\ HeapDo("Emplace", t, Args(p, val, -1, 0, FALSE, FALSE),
                     Emplace(vec[t], p, val, FALSE, 0, FALSE),
                     DataAfter(t, EmplaceAllocates(vec[t]), Grown(vec[t])))

HeapInsertCall(t, bnd) ==
    /\ Idle
    /\ vec[t].alive
    /\ EmplaceAllocates(vec[t]) => (Grown(vec[t]) <= bnd /\ CanAllocate)
    /\ \E p \in 0..bnd, val \in Values :
           /\ p <= vec[t].size
           /\ HeapDo("Insert", t, Args(p, val, -1, 0, FALSE, FALSE),
                     Insert(vec[t], p, val, FALSE, 0, FALSE),
                     DataAfter(t, EmplaceAllocates(vec[t]), Grown(vec[t])))

HeapEraseCall(t, bnd) ==
    /\ Idle
    /\ vec[t].alive
    /\ \E p \in 0..bnd :
           /\ p < vec[t].size
           /\ HeapDo("Erase", t, Args(p, 0, -1, 0, FALSE, FALSE), Erase(vec[t], p, 0),
                     KeepData(heap, data_[t]))

HeapDefaultCtorCall(t) ==
    /\ Idle
    /\ ~vec[t].alive
    /\ HeapDo("Vector()", t, NoArgs, Res(DefaultCtor, "none", 0, -1),
              [obj |-> RawObj(0, 0), heap |-> heap])

HeapSizedCtorCall(t, bnd) ==
    /\ Idle
    /\ ~vec[t].alive
    /\ \E n \in 0..bnd :
           /\ n > 0 => CanAllocate
           /\ HeapDo("Vector(size)", t, Args(-1, 0, n, 0, FALSE, FALSE),
                     SizedCtor(n, FALSE, 0), RawMemoryCtor(heap, n))

HeapCopyCtorCall(t, o) ==
    /\ Idle
    /\ ~vec[t].alive
    /\ vec[o].alive
    /\ vec[o].size > 0 => CanAllocate
    /\ LET r == CopyCtor(vec[o], FALSE, 0)
           d == RawMemoryCtor(heap, vec[o].size)
       IN HeapDo2("Vector(const Vector&)", t, o, Res2(r.v, vec[o], r.exc, r.orphans),
                  [obj |-> d.obj, other |-> data_[o], heap |-> d.heap])

HeapMoveCtorCall(t, o) ==
    /\ Idle
    /\ ~vec[t].alive
    /\ vec[o].alive
    /\ HeapDo2("Vector(Vector&&)", t, o, MoveCtor(vec[o]),
               RawMemorySwap(heap, RawObj(0, 0), data_[o]))

HeapDtorCall(t) ==
    /\ Idle
    /\ vec[t].alive
    /\ HeapDo("~Vector()", t, NoArgs, Dtor(vec[t]), RawMemoryDtor(heap, data_[t]))

HeapCopyAssignCall(t, o) ==
    /\ Idle
    /\ vec[t].alive
    /\ vec[o].alive
    /\ CopyAssignAllocates(vec[t], vec[o], t = o) => CanAllocate
    /\ LET r == CopyAssign(vec[t], vec[o], t = o, FALSE, 0)
           d == DataAfter(t, CopyAssignAllocates(vec[t], vec[o], t = o), vec[o].size)
       IN HeapDo2("operator=(const Vector&)", t, o,
                  Res2(r.v, IF t = o THEN r.v ELSE vec[o], r.exc, r.orphans),
                  [obj |-> d.obj, other |-> IF t = o THEN d.obj ELSE data_[o],
                   heap |-> d.heap])

HeapMoveAssignCall(t, o) ==
    /\ Idle
    /\ vec[t].alive
    /\ vec[o].alive
    /\ HeapDo2("operator=(Vector&&)", t, o, MoveAssign(vec[t], vec[o], t = o),
               IF t = o THEN [obj |-> data_[t], other |-> data_[t], heap |-> heap]
               ELSE RawMemorySwap(heap, data_[t], data_[o]))

HeapSwapCall(t, o) ==
    /\ Idle
    /\ vec[t].alive
    /\ vec[o].alive
    /\ HeapDo2("Swap", t, o, Swap(vec[t], vec[o]),
               RawMemorySwap(heap, data_[t], data_[o]))

\* v.PushBack(v[i]), v.EmplaceBack(v[i]), v.Emplace(pos, v[i]) and
\* v.Insert(pos, v[i]) that return; call.arg.n is i.
PushBackRefCall(t, bnd) ==
    /\ Idle
    /\ vec[t].alive
    /\ AppendAllocates(vec[t]) => Grown(vec[t]) <= bnd
    /\ \E i \in 0..bnd :
           /\ i < vec[t].size
           /\ Do("PushBack(v[i])", t, Args(-1, 0, i, 0, FALSE, FALSE),
                 PushBackRef(vec[t], i, FALSE, 0), << >>)

EmplaceBackRefCall(t, bnd) ==
    /\ Idle
    /\ vec[t].alive
    /\ AppendAllocates(vec[t]) => Grown(vec[t]) <= bnd
    /\ \E i \in 0..bnd :
           /\ i < vec[t].size
           /\ Do("EmplaceBack(v[i])", t, Args(-1, 0, i, 0, FALSE, FALSE),
                 EmplaceBackRef(vec[t], i, FALSE, 0), << >>)

EmplaceRefCall(t, bnd) ==
    /\ Idle
    /\ vec[t].alive
    /\ EmplaceAllocates(vec[t]) => Grown(vec[t]) <= bnd
    /\ \E p \in 0..bnd, i \in 0..bnd :
           /\ p <= vec[t].size
           /\ i < vec[t].size
           /\ Do("Emplace(pos, v[i])", t, Args(p, 0, i, 0, FALSE, FALSE),
                 EmplaceRef(vec[t], p, i, FALSE, 0, FALSE), << >>)

InsertRefCall(t, bnd) ==
    /\ Idle
    /\ vec[t].alive
    /\ EmplaceAllocates(vec[t]) => Grown(vec[t]) <= bnd
    /\ \E p \in 0..bnd, i \in 0..bnd :
           /\ p <= vec[t].size
           /\ i < vec[t].size
           /\ Do("Insert(pos, v[i])", t, Args(p, 0, i, 0, FALSE, FALSE),
                 InsertRef(vec[t], p, i, FALSE, 0, FALSE), << >>)

\* RawMemory calls; rcall records the last one with both objects before it.
NoRawCall == [op |-> "none", t |-> "r1", o |-> "r1", pre |-> NoRaw, preO |-> NoRaw]

RawIdle == rcall = NoRawCall

RawDo(op, t, o, obj, other, h) ==
    /\ raw' = [raw EXCEPT ![o] = other, ![t] = obj]
    /\ heap' = h
    /\ rcall' = [op |-> op, t |-> t, o |-> o, pre |-> raw[t], preO |-> raw[o]]
    /\ UNCHANGED <<vec, kind, call, appended, data_>>

RawCtorCall(t) ==
    /\ RawIdle
    /\ \E n \in 0..MaxCapPair :
           /\ ~raw[t].alive
           /\ n # 0 => \E b \in Blocks : heap[b] = "unused"
           /\ LET r == RawMemoryCtor(heap, n) IN RawDo("RawMemory(capacity)", t, t, r.obj, r.obj, r.heap)

RawMoveCtorCall(t, o) ==
    /\ RawIdle
    /\ t # o
    /\ ~raw[t].alive
    /\ raw[o].alive
    /\ LET r == RawMemoryMoveCtor(heap, raw[o])
       IN RawDo("RawMemory(RawMemory&&)", t, o, r.obj, r.other, r.heap)

RawMoveAssignCall(t, o) ==
    /\ RawIdle
    /\ raw[t].alive
    /\ raw[o].alive
    /\ LET r == RawMemoryMoveAssign(heap, raw[t], raw[o])
       IN RawDo("operator=(RawMemory&&)", t, o, r.obj, IF t = o THEN r.obj ELSE r.other, r.heap)

RawSwapCall(t, o) ==
    /\ RawIdle
    /\ raw[t].alive
    /\ raw[o].alive
    /\ LET r == RawMemorySwap(heap, raw[t], raw[o])
       IN RawDo("Swap", t, o, r.obj, r.other, r.heap)

RawDtorCall(t) ==
    /\ RawIdle
    /\ raw[t].alive
    /\ LET r == RawMemoryDtor(heap, raw[t]) IN RawDo("~RawMemory()", t, t, r.obj, r.obj, r.heap)

RawReturn ==
    /\ rcall # NoRawCall
    /\ rcall' = NoRawCall
    /\ UNCHANGED <<vec, kind, call, raw, heap, appended, data_>>

----------------------------------------------------------------------------
\* The specifications.  Spec: every call on one vector, A, up to capacity
\* MaxCap.  SpecPair: two vectors, constructed, assigned, swapped and destroyed,
\* up to capacity MaxCapPair (Emplace and Insert are called in Spec alone).
\* SpecRaw: two RawMemory objects.

Init ==
    /\ vec = [t \in Vecs |-> IF t = "A" THEN DefaultCtor ELSE NoVec]
    /\ kind \in Kinds
    /\ call = NoCall
    /\ raw = [r \in Raws |-> NoRaw]
    /\ heap = [b \in Blocks |-> "unused"]
    /\ rcall = NoRawCall
    /\ appended = << >>
    /\ data_ = [t \in Vecs |-> IF t = "A" THEN RawObj(0, 0) ELSE NoRaw]

Next ==
    \/ ReserveCall("A", MaxCap)
    \/ ResizeCall("A", MaxCap)
    \/ PushBackCall("A", MaxCap)
    \/ EmplaceBackCall("A", MaxCap)
    \/ PopBackCall("A")
    \/ EmplaceCall("A", MaxCap)
    \/ InsertCall("A", MaxCap)
    \/ EraseCall("A", MaxCap)
    \/ EraseInsertedCall("A")
    \/ EraseEndCall("A")
    \/ AssignCall("A", MaxCap)
    \/ Return

Spec == Init /\ [][Next]_vars

NextPair ==
    \/ Return
    \/ \E t \in Vecs :
        \/ ReserveCall(t, MaxCapPair)
        \/ ResizeCall(t, MaxCapPair)
        \/ PushBackCall(t, MaxCapPair)
        \/ EmplaceBackCall(t, MaxCapPair)
        \/ PopBackCall(t)
        \/ EraseCall(t, MaxCapPair)
        \/ DefaultCtorCall(t)
        \/ SizedCtorCall(t, MaxCapPair)
        \/ DtorCall(t)
        \/ \E o \in Vecs :
            \/ CopyCtorCall(t, o, MaxCapPair)
            \/ MoveCtorCall(t, o)
            \/ CopyAssignCall(t, o, MaxCapPair)
            \/ MoveAssignCall(t, o)
            \/ SwapCall(t, o)

SpecPair == Init /\ [][NextPair]_vars

NextRaw ==
    \/ RawReturn
    \/ \E t \in Raws :
        \/ RawCtorCall(t)
        \/ RawDtorCall(t)
        \/ \E o \in Raws :
            \/ RawMoveCtorCall(t, o)
            \/ RawMoveAssignCall(t, o)
            \/ RawSwapCall(t, o)

SpecRaw == Init /\ [][NextRaw]_vars

\* SpecAppend: appends only, to the default-constructed vector A, up to
\* capacity MaxAppend.
NextAppend ==
    \/ AppendPushBackCall(MaxAppend)
    \/ AppendEmplaceBackCall(MaxAppend)
    \/ Return

SpecAppend == Init /\ [][NextAppend]_vars

\* SpecSelf: one vector, A, built by Reserve, PushBack and PopBack, and the
\* calls that insert one of its own elements, up to capacity MaxCap.
NextSelf ==
    \/ ReserveCall("A", MaxCap)
    \/ PushBackCall("A", MaxCap)
    \/ PopBackCall("A")
    \/ PushBackRefCall("A", MaxCap)
    \/ EmplaceBackRefCall("A", MaxCap)
    \/ EmplaceRefCall("A", MaxCap)
    \/ InsertRefCall("A", MaxCap)
    \/ Return

SpecSelf == Init /\ [][NextSelf]_vars

\* SpecHeap: the calls that return, on two vectors and their blocks, up to
\* capacity MaxCapPair.
NextHeap ==
    \/ Return
    \/ \E t \in Vecs :
        \/ HeapReserveCall(t, MaxCapPair)
        \/ HeapResizeCall(t, MaxCapPair)
        \/ HeapPushBackCall(t, MaxCapPair)
        \/ HeapEmplaceBackCall(t, MaxCapPair)
        \/ HeapPopBackCall(t)
        \/ HeapEmplaceCall(t, MaxCapPair)
        \/ HeapInsertCall(t, MaxCapPair)
        \/ HeapEraseCall(t, MaxCapPair)
        \/ HeapDefaultCtorCall(t)
        \/ HeapSizedCtorCall(t, MaxCapPair)
        \/ HeapDtorCall(t)
        \/ \E o \in Vecs :
            \/ HeapCopyCtorCall(t, o)
            \/ HeapMoveCtorCall(t, o)
            \/ HeapCopyAssignCall(t, o)
            \/ HeapMoveAssignCall(t, o)
            \/ HeapSwapCall(t, o)

SpecHeap == Init /\ [][NextHeap]_vars

----------------------------------------------------------------------------
\* The properties.

Inserts == {"PushBack", "EmplaceBack", "Emplace", "Insert"}

\* The last call was an append or insert made with size == capacity.
GrowingInsert == call.op \in Inserts /\ call.pre.size = Capacity(call.pre)

\* The vector the last call was made on, as it is now.
Now == vec[call.t]

\* C1: when an append or insert reallocates, relocates by copy and the copy of
\* an existing element throws, no element that the call constructed in the
\* new block is still constructed when the block is released.
C1_NoOrphanOnCopyThrow ==
    (GrowingInsert /\ ~RelocByMove /\ call.exc = "elem" /\ call.arg.f >= 2)
        => call.orphans = 0

\* The last call threw from the copy of an element while it was relocating
\* the elements into a new block.
CopyThrewInRealloc ==
    /\ call.exc = "elem"
    /\ \/ call.op = "Reserve"
       \/ call.op = "Resize" /\ call.arg.f <= ReservePoints(call.pre, call.arg.n)
       \/ GrowingInsert
       \/ call.op = "operator=(const Vector&)" /\ Capacity(call.pre) < call.preO.size

\* C2: a copy constructor that throws during a reallocating call leaves the
\* vector with the size, the capacity and the elements it had before the call.
C2_StrongGuarantee ==
    CopyThrewInRealloc =>
        /\ Now.size = call.pre.size
        /\ Capacity(Now) = Capacity(call.pre)
        /\ Elems(Now) = Elems(call.pre)

\* An insert in the middle of a full vector of two whose second copy, that of
\* the suffix element, throws after the prefix element was copied.
C2_Witness ==
    /\ CopyThrewInRealloc
    /\ call.op = "Emplace"
    /\ call.pre.size = 2
    /\ call.arg.p = 1
    /\ call.arg.f = 3

MoveCalls == {"Vector(Vector&&)", "operator=(Vector&&)"}

\* C3 as stated: after B = move(A), by construction or by assignment to an
\* existing B, B has A's prior size and elements and A's size is 0.
C3_MoveEmptiesSource ==
    (call.op \in MoveCalls /\ call.t # call.o) =>
        /\ Now.size = call.preO.size
        /\ Elems(Now) = Elems(call.preO)
        /\ vec[call.o].size = 0

\* C3 as amended: B has A's prior size and elements; after move construction
\* A has size 0 and capacity 0; after move assignment A has B's prior size,
\* capacity and elements.
C3_MoveTransfers ==
    (call.op \in MoveCalls /\ call.t # call.o) =>
        /\ Now.size = call.preO.size
        /\ Elems(Now) = Elems(call.preO)
        /\ Capacity(Now) = Capacity(call.preO)
        /\ call.op = "Vector(Vector&&)" =>
               (vec[call.o].size = 0 /\ Capacity(vec[call.o]) = 0)
        /\ call.op = "operator=(Vector&&)" =>
               /\ vec[call.o].size = call.pre.size
               /\ Capacity(vec[call.o]) = Capacity(call.pre)
               /\ Elems(vec[call.o]) = Elems(call.pre)

\* A move assignment of a vector of two to a vector of one.
C3_Witness ==
    /\ call.op = "operator=(Vector&&)"
    /\ call.t # call.o
    /\ call.pre.size = 1
    /\ call.preO.size = 2
    /\ Now.size = 2

RawMoveCalls == {"RawMemory(RawMemory&&)", "operator=(RawMemory&&)"}

\* C4: after RawMemory move construction and move assignment the destination
\* has the source's prior handle and capacity, and the source a null handle
\* and capacity 0.
C4_RawMoveTransfers ==
    (rcall.op \in RawMoveCalls /\ rcall.t # rcall.o) =>
        /\ raw[rcall.t].buffer = rcall.preO.buffer
        /\ raw[rcall.t].capacity = rcall.preO.capacity
        /\ raw[rcall.o].buffer = 0
        /\ raw[rcall.o].capacity = 0

\* C5: a call whose allocation fails leaves the vector exactly as it was,
\* every slot of its block included.
C5_AllocFailureLeavesState ==
    call.exc = "bad_alloc" => Now = call.pre

\* A copy assignment of three elements to a vector of two with capacity two,
\* whose allocation fails.
C5_Witness ==
    /\ call.exc = "bad_alloc"
    /\ call.op = "operator=(const Vector&)"
    /\ call.pre.size = 2
    /\ call.preO.size = 3

\* C6: an append or insert that returns from a call made with size == capacity
\* leaves capacity max(1, 2 * size); made with size < capacity it leaves the
\* capacity as it was; so the capacity never decreases, and a growth at least
\* doubles it or makes it 1 from 0.
C6_GrowthRule ==
    call.op \in Inserts =>
        LET s == call.pre.size
            c == Capacity(call.pre)
            c2 == Capacity(Now)
        IN /\ (s = c /\ call.exc = "none") => c2 = (IF 2 * s > 1 THEN 2 * s ELSE 1)
           /\ s < c => c2 = c
           /\ c2 >= c
           /\ c2 # c => (c2 >= 2 * c /\ (c = 0 => c2 = 1))

\* An insert into a full vector of two that grows it to capacity four.
C6_Witness ==
    /\ call.op = "Insert"
    /\ call.exc = "none"
    /\ call.pre.size = 2
    /\ Capacity(call.pre) = 2
    /\ Capacity(Now) = 4

\* C7: a successful Insert or Emplace of v at index p into the sequence s of
\* length n leaves s[0..p) ++ [v] ++ s[p..n), size n + 1, and returns index p.
C7_InsertResult ==
    (call.op \in {"Emplace", "Insert"} /\ call.exc = "none") =>
        LET s == Elems(call.pre)
            p == call.arg.p
        IN /\ Elems(Now) = SubSeq(s, 1, p) \o << call.arg.val >> \o SubSeq(s, p + 1, Len(s))
           /\ Now.size = Len(s) + 1
           /\ call.ret = p

\* An insert at the front of three elements with room for a fourth: two
\* elements are shifted.
C7_Witness ==
    /\ call.op = "Insert"
    /\ call.exc = "none"
    /\ call.pre.size = 3
    /\ Capacity(call.pre) = 4
    /\ call.arg.p = 0
    /\ Elems(call.pre) = << 0, 1, 1 >>

\* C8: an Erase of the position a successful insertion at p has returned gives
\* back the sequence there was before the insertion and returns p, which is
\* end() when p was the last index.
C8_InsertEraseInverse ==
    (call.op = "Erase" /\ call.undo # << >> /\ call.exc = "none") =>
        /\ Elems(Now) = call.undo[1]
        /\ Now.size = Len(call.undo[1])
        /\ call.ret = call.arg.p
        /\ call.arg.p = Len(call.undo[1]) => call.ret = Now.size

\* An Erase that undoes an insertion at the front of two elements.
C8_Witness ==
    /\ call.op = "Erase"
    /\ call.undo = << << 0, 1 >> >>
    /\ call.exc = "none"
    /\ call.arg.p = 0

\* C9: in every state, after a call that returned or threw, size <= capacity,
\* the slots [0, size) hold constructed elements and the slots
\* [size, capacity) hold none.
C9_LiveExactlyBelowSize ==
    \A t \in Vecs :
        vec[t].alive =>
            /\ vec[t].size <= Capacity(vec[t])
            /\ \A j \in 1..Capacity(vec[t]) : (j <= vec[t].size) <=> (vec[t].data[j] # Raw)

\* C10: when the shift or the final assignment of an insert without
\* reallocation throws for a T relocated by copy, the tail slot at index size
\* is destroyed, size is as before and exactly the slots [0, size) are live.
C10_TailDestroyedOnShiftThrow ==
    (/\ call.op \in {"Emplace", "Insert"}
     /\ call.exc = "elem"
     /\ InTry(call.pre, call.arg.p, call.arg.f)) =>
        /\ Now.size = call.pre.size
        /\ \A j \in 1..Capacity(Now) : (j <= Now.size) <=> (Now.data[j] # Raw)

\* The capacity after n appends to an empty vector: 0, 1, 2, 4, 4, 8, ...
RECURSIVE CapacityAfter(_)
CapacityAfter(n) ==
    IF n = 0 THEN 0
    ELSE LET c == CapacityAfter(n - 1)
         IN IF n - 1 < c THEN c ELSE IF n = 1 THEN 1 ELSE 2 * (n - 1)

\* C11: after the appends of v0..v(n-1), by PushBack or EmplaceBack in any mix,
\* to an empty vector, size is n and element i is vi, across the reallocations
\* to capacities 1, 2, 4, 8; an append that throws appends nothing.
C11_AppendsInOrder ==
    /\ vec["A"].size = Len(appended)
    /\ Elems(vec["A"]) = appended
    /\ Capacity(vec["A"]) = CapacityAfter(Len(appended))

\* Five appends, the last one by EmplaceBack into the block of capacity 8.
C11_Witness ==
    /\ appended = << 1, 0, 0, 1, 1 >>
    /\ call.op = "EmplaceBack"
    /\ call.exc = "none"
    /\ Capacity(call.pre) = 4
    /\ Capacity(vec["A"]) = 8
    /\ Elems(vec["A"]) = << 1, 0, 0, 1, 1 >>

\* C12: a copy assignment A = rhs made with A.capacity >= rhs.size allocates
\* nothing and leaves the capacity and rhs as they were; when it returns, A has
\* rhs's size and elements; when an element assignment or construction throws,
\* A has the size it had and exactly the slots [0, size) are constructed.
C12_AssignInPlace ==
    (call.op = "operator=(const Vector&)" /\ Capacity(call.pre) >= call.preO.size) =>
        /\ ~CopyAssignAllocates(call.pre, call.preO, call.t = call.o)
        /\ call.exc # "bad_alloc"
        /\ Capacity(Now) = Capacity(call.pre)
        /\ call.t # call.o => vec[call.o] = call.preO
        /\ call.exc = "none" =>
               (Now.size = call.preO.size /\ Elems(Now) = Elems(call.preO))
        /\ call.exc = "elem" =>
               /\ Now.size = call.pre.size
               /\ \A j \in 1..Capacity(Now) : (j <= Now.size) <=> (Now.data[j] # Raw)

\* An assignment of two elements to a vector of one with capacity two, whose
\* construction of the second element throws after the first was assigned.
C12_Witness ==
    /\ call.op = "operator=(const Vector&)"
    /\ call.t # call.o
    /\ call.pre.size = 1
    /\ Capacity(call.pre) = 2
    /\ call.preO.size = 2
    /\ call.exc = "elem"
    /\ call.arg.f = 2
    /\ Now.data[1] = call.preO.data[1]

\* Vector t is in order: size <= capacity, exactly the slots [0, size) hold
\* constructed elements, and its RawMemory has the block's capacity and a null
\* handle exactly when the capacity is 0.
InOrder(t) ==
    /\ vec[t].size <= Capacity(vec[t])
    /\ \A j \in 1..Capacity(vec[t]) : (j <= vec[t].size) <=> (vec[t].data[j] # Raw)
    /\ data_[t].alive
    /\ data_[t].capacity = Capacity(vec[t])
    /\ (data_[t].buffer = 0) <=> (data_[t].capacity = 0)

\* Every block handed out belongs to exactly one constructed vector, and
\* every handle of a constructed vector is that of a block handed out.
OneOwnerEach ==
    /\ \A b \in Blocks :
           /\ heap[b] \in {"unused", "owned"}
           /\ heap[b] = "owned" =>
                  Cardinality({t \in Vecs : vec[t].alive /\ data_[t].buffer = b}) = 1
    /\ \A t \in Vecs :
           IF vec[t].alive
           THEN data_[t].buffer # 0 => heap[data_[t].buffer] = "owned"
           ELSE data_[t] = NoRaw

OneVectorCalls ==
    {"Reserve", "Resize", "PushBack", "EmplaceBack", "PopBack", "Emplace", "Insert", "Erase"}

\* C13: the copy-constructed B has A's size and elements and capacity A.size,
\* in a block of its own; a call that changes B (an append, insert, erase,
\* resize, reserve or copy assignment) leaves A's size, capacity and elements
\* as they were.
C13_CopyIsIndependent ==
    /\ call.op = "Vector(const Vector&)" =>
           /\ Now.size = call.preO.size
           /\ Elems(Now) = Elems(call.preO)
           /\ Capacity(Now) = call.preO.size
           /\ data_[call.t].capacity = call.preO.size
           /\ vec[call.o] = call.preO
    /\ (vec["A"].alive /\ vec["B"].alive /\ data_["A"].buffer # 0) =>
           data_["A"].buffer # data_["B"].buffer
    /\ (call.op \in OneVectorCalls \/ call.op = "operator=(const Vector&)") =>
           (call.t # call.o => vec[call.o] = call.preO)

\* The copy of a vector of one element with capacity two.
C13_Witness ==
    /\ call.op = "Vector(const Vector&)"
    /\ call.preO.size = 1
    /\ Capacity(call.preO) = 2
    /\ Capacity(Now) = 1
    /\ data_[call.t].buffer # data_[call.o].buffer

\* C14: a Resize(n) that returns, on a vector of size s and capacity c, leaves
\* size n; for n < s it destroys exactly the elements [n, s) and leaves every
\* other slot and the capacity as they were; for n >= s it leaves the first s
\* elements as they were, value-constructs the elements [s, n) and leaves
\* capacity max(c, n); for n = s, as in a second Resize(n), it changes nothing.
C14_ResizeResult ==
    (call.op = "Resize" /\ call.exc = "none") =>
        LET n == call.arg.n
            s == call.pre.size
            c == Capacity(call.pre)
        IN /\ Now.size = n
           /\ n < s =>
                  /\ Capacity(Now) = c
                  /\ \A j \in 1..c :
                         Now.data[j] = IF n < j /\ j <= s THEN Raw ELSE call.pre.data[j]
           /\ n >= s =>
                  /\ Capacity(Now) = IF n > c THEN n ELSE c
                  /\ \A j \in 1..s : Now.data[j] = call.pre.data[j]
                  /\ \A j \in (s + 1)..n : Now.data[j] = DefaultVal
           /\ n = s => Now = call.pre

\* A Resize(3) of a vector of two elements with capacity two: the capacity
\* becomes three, not four.
C14_Witness ==
    /\ call.op = "Resize"
    /\ call.exc = "none"
    /\ call.arg.n = 3
    /\ Elems(call.pre) = << 1, 1 >>
    /\ Capacity(call.pre) = 2
    /\ Capacity(Now) = 3
    /\ Elems(Now) = << 1, 1, 0 >>

\* C15: an Erase called with position == end() trips the assertion before any
\* element is moved or destroyed and before size changes.
C15_EraseAtEndAsserts ==
    (call.op = "Erase" /\ call.arg.p = call.pre.size) =>
        (call.exc = "assert" /\ Now = call.pre)

\* C16: over the calls that return, every block released holds no constructed
\* element, every constructed vector is in order (so that each destroy_n and
\* destroy_at of [0, size) meets constructed elements only), every block handed
\* out has exactly one owner and none is released twice; with every vector
\* destroyed, no block is left handed out.
C16_ReleasedExactlyOnce ==
    /\ call.orphans = 0
    /\ \A t \in Vecs : vec[t].alive => InOrder(t)
    /\ OneOwnerEach

\* The destruction of the second of two vectors: a vector of two elements is
\* destroyed while the other is already gone, and every block is back.
C16_Witness ==
    /\ call.op = "~Vector()"
    /\ call.pre.size = 2
    /\ \A t \in Vecs : ~vec[t].alive
    /\ \A b \in Blocks : heap[b] = "unused"
    /\ C16_ReleasedExactlyOnce

AppendsOfOwn == {"PushBack(v[i])", "EmplaceBack(v[i])"}

InsertsOfOwn == {"Emplace(pos, v[i])", "Insert(pos, v[i])"}

\* C17: a PushBack, EmplaceBack, Emplace or Insert whose argument is a
\* reference to element i of the vector itself inserts the value v[i] had
\* before the call, with and without reallocation, and leaves the other
\* elements in their order.
C17_OwnElementInserted ==
    (call.op \in AppendsOfOwn \union InsertsOfOwn /\ call.exc = "none") =>
        LET s == Elems(call.pre)
            x == call.pre.data[call.arg.n + 1]
            q == IF call.op \in AppendsOfOwn THEN call.pre.size ELSE call.arg.p
        IN /\ Now.size = Len(s) + 1
           /\ Now.data[q + 1] = x
           /\ Elems(Now) = SubSeq(s, 1, q) \o << x >> \o SubSeq(s, q + 1, Len(s))

\* v.Insert(v.begin(), v[1]) on [0, 1] with room for a third element: the
\* element referred to is shifted before the new element is assigned.
C17_Witness ==
    /\ call.op = "Insert(pos, v[i])"
    /\ call.exc = "none"
    /\ Elems(call.pre) = << 0, 1 >>
    /\ Capacity(call.pre) = 4
    /\ call.arg.p = 0
    /\ call.arg.n = 1
    /\ Elems(Now) = << 1, 0, 1 >>

====
